---- MODULE Spec2Model ----
(***************************************************************************)
(* A model of etl_script.py: the one-shot CSV -> PostgreSQL pipeline.      *)
(* The persistent store (catalog and warehouse.shipments) survives across  *)
(* process invocations; everything else is per-invocation state.           *)
(***************************************************************************)
EXTENDS Integers, Sequences, FiniteSets, TLC

VARIABLES
    store,      \* committed state of the PostgreSQL server
    work,       \* what the open connection's transaction sees (uncommitted)
    stage,      \* the call main() is at, or "done" / "failed"
    pc,         \* position inside the function main() is calling
    conn,       \* the local variable conn of that function
    cur,        \* the local variable cur of that function
    openConns,  \* connections this process holds open
    exc,        \* the exception in flight in that function
    k,          \* executemany: records already executed
    df,         \* main's df (the extracted CSV)
    dft,        \* main's df_transformed
    logged,     \* logging.error records of this invocation
    propagated, \* the exception main() re-raised to the process boundary
    cause,      \* history: the first exception raised in this invocation
    succeeded,  \* history: the calls of main() that returned normally
    store0,     \* history: the store when this invocation started
    snap,       \* history: the store before the current chain of failed runs
    ddl,        \* history: catalog objects this invocation created
    rowWrites,  \* history: row statements this invocation executed
    loaded      \* history: identifiers of every committed load

vars == <<store, work, stage, pc, conn, cur, openConns, exc, k, df, dft,
          logged, propagated, cause, succeeded, store0, snap, ddl,
          rowWrites, loaded>>

----------------------------------------------------------------------------
(* Bounds *)

MaxId == 2
MaxRows == 2
MaxBad == 2

Ids == 1..MaxId

----------------------------------------------------------------------------
(* Cell values: a parsed number, a non-numeric text, or pandas' NaN.  The   *)
(* tag comes first so that values of different kinds compare unequal.       *)

Num(n) == <<"num", n>>
Str(s) == <<"str", s>>
NaN == <<"nan", 0>>

IsNum(v) == v[1] = "num"
IsStr(v) == v[1] = "str"

\* main has not bound the name yet (a CSV always has a header).
NoDf == [columns |-> {}, rows |-> <<>>]
NoExc == "none"

----------------------------------------------------------------------------
(* validate_data *)

RequiredColumns ==
    {"ID", "Warehouse_block", "Mode_of_Shipment", "Customer_care_calls",
     "Customer_rating", "Cost_of_the_Product", "Prior_purchases",
     "Product_importance", "Gender", "Discount_offered", "Weight_in_gms",
     "Reached.on.Time_Y.N"}

RowIdx(d) == 1..Len(d.rows)

\* Series.between(1, 5): NaN compares False; a column holding any text is of
\* object dtype and the comparison raises TypeError.
between(v, lo, hi) == IsNum(v) /\ lo <= v[2] /\ v[2] <= hi

\* Series.isin([0, 1]): text and NaN are not members.
isin01(v) == IsNum(v) /\ v[2] \in {0, 1}

RatingsAllValidFirstOnly(d) ==
    Len(d.rows) = 0 \/ between(d.rows[1]["Customer_rating"], 1, 5)

RatingsAllValid(d) ==
    \A i \in RowIdx(d) : between(d.rows[i]["Customer_rating"], 1, 5)

FlagsAllValid(d) ==
    \A i \in RowIdx(d) : isin01(d.rows[i]["Reached.on.Time_Y.N"])

validate_data_lax(d) ==
    IF ~((RequiredColumns \ {"Gender"}) \subseteq d.columns)
      THEN "AssertionError: Missing required columns"
    ELSE IF \E i \in RowIdx(d) : IsStr(d.rows[i]["Customer_rating"])
      THEN "TypeError: '>=' not supported between instances of 'str' and 'int'"
    ELSE IF ~RatingsAllValid(d)
      THEN "AssertionError: Invalid customer ratings"
    ELSE IF ~FlagsAllValid(d)
      THEN "AssertionError: Invalid reached on time values"
    ELSE NoExc

\* The exception validate_data raises, or NoExc when it returns True.
validate_data(d) ==
    IF ~(RequiredColumns \subseteq d.columns)
      THEN "AssertionError: Missing required columns"
    ELSE IF \E i \in RowIdx(d) : IsStr(d.rows[i]["Customer_rating"])
      THEN "TypeError: '>=' not supported between instances of 'str' and 'int'"
    ELSE IF ~RatingsAllValid(d)
      THEN "AssertionError: Invalid customer ratings"
    ELSE IF ~FlagsAllValid(d)
      THEN "AssertionError: Invalid reached on time values"
    ELSE NoExc

----------------------------------------------------------------------------
(* transform_data *)

column_mapping(c) ==
    CASE c = "ID" -> "id"
      [] c = "Warehouse_block" -> "warehouse_block"
      [] c = "Mode_of_Shipment" -> "mode_of_shipment"
      [] c = "Customer_care_calls" -> "customer_care_calls"
      [] c = "Customer_rating" -> "customer_rating"
      [] c = "Cost_of_the_Product" -> "cost_of_the_product"
      [] c = "Prior_purchases" -> "prior_purchases"
      [] c = "Product_importance" -> "product_importance"
      [] c = "Gender" -> "gender"
      [] c = "Discount_offered" -> "discount_offered"
      [] c = "Weight_in_gms" -> "weight_in_gms"
      [] c = "Reached.on.Time_Y.N" -> "reached_on_time"
      [] OTHER -> c

\* DataFrame.rename(columns=column_mapping): unmapped labels are kept.
rename(d) ==
    LET newcols == {column_mapping(c) : c \in d.columns}
        src(n) == CHOOSE c \in d.columns : column_mapping(c) = n
    IN  [columns |-> newcols,
         rows |-> [i \in RowIdx(d) |-> [n \in newcols |-> d.rows[i][src(n)]]]]

numeric_columns ==
    {"customer_care_calls", "customer_rating", "cost_of_the_product",
     "prior_purchases", "discount_offered", "weight_in_gms",
     "reached_on_time"}

fillna_columns == {"customer_care_calls", "prior_purchases", "discount_offered"}

\* pd.to_numeric(errors='coerce') on one cell.
to_numeric(v) == IF IsNum(v) THEN v ELSE NaN

\* for col in numeric_columns: df[col] = pd.to_numeric(df[col], ...)
coerce(d) ==
    [columns |-> d.columns,
     rows |-> [i \in RowIdx(d) |->
                 [c \in d.columns |->
                     IF c \in numeric_columns THEN to_numeric(d.rows[i][c])
                     ELSE d.rows[i][c]]]]

\* df.fillna({...: 0}) on the three listed columns.
fillna(d) ==
    [columns |-> d.columns,
     rows |-> [i \in RowIdx(d) |->
                 [c \in d.columns |->
                     IF c \in fillna_columns /\ d.rows[i][c] = NaN THEN Num(0)
                     ELSE d.rows[i][c]]]]

TransformFillFirst(d) == coerce(fillna(rename(d)))

\* The body of transform_data after validation: rename, coerce, fill.
Transform(d) == fillna(coerce(rename(d)))

----------------------------------------------------------------------------
(* The server, as far as the statements of the script exercise it.  The     *)
(* server-assigned created_at column is not part of any statement's column  *)
(* list and is left out.                                                    *)

DbName == "train"

\* warehouse.shipments as declared by create_table.
TableColumns == {column_mapping(c) : c \in RequiredColumns}
IntegerColumns == numeric_columns \cup {"id"}

FreshStore == [dbs |-> {"postgres"}, schemas |-> {}, tables |-> {},
               rows |-> [i \in {} |-> <<>>]]

Catalog(s) == [dbs |-> s.dbs, schemas |-> s.schemas, tables |-> s.tables]

FullCatalog == [dbs |-> {"postgres", DbName}, schemas |-> {"warehouse"},
                tables |-> {"shipments"}]

\* CREATE SCHEMA IF NOT EXISTS warehouse
CreateSchemaIfNotExists(s) == [s EXCEPT !.schemas = @ \cup {"warehouse"}]

CreateTableDropFirst(s) ==
    [s EXCEPT !.tables = @ \cup {"shipments"}, !.rows = [i \in {} |-> <<>>]]

\* CREATE TABLE IF NOT EXISTS warehouse.shipments (...)
CreateTableIfNotExists(s) ==
    IF "shipments" \in s.tables THEN s
    ELSE [s EXCEPT !.tables = @ \cup {"shipments"}, !.rows = [i \in {} |-> <<>>]]

\* The error one INSERT ... ON CONFLICT statement draws from the server for
\* the column list cols and the parameter tuple r, or NoExc.
StatementError(s, cols, r) ==
    IF "shipments" \notin s.tables
      THEN "UndefinedTable: relation warehouse.shipments does not exist"
    ELSE IF ~(cols \subseteq TableColumns)
      THEN "UndefinedColumn: column of relation shipments does not exist"
    ELSE IF \E c \in IntegerColumns \cap cols : ~IsNum(r[c])
      THEN "DataError: invalid input for type integer"
    ELSE IF "id" \notin cols
      THEN "NotNullViolation: null value in column id"
    ELSE IF "customer_rating" \in cols /\ ~between(r["customer_rating"], 1, 5)
      THEN "CheckViolation: shipments_customer_rating_check"
    ELSE IF "reached_on_time" \in cols /\ ~isin01(r["reached_on_time"])
      THEN "CheckViolation: shipments_reached_on_time_check"
    ELSE NoExc

Stored(cols, r) == [c \in TableColumns |-> IF c \in cols THEN r[c] ELSE NaN]

UpsertDoNothing(rows, cols, r) ==
    LET id == r["id"][2]
    IN  IF id \in DOMAIN rows THEN rows
        ELSE [i \in DOMAIN rows \cup {id} |->
                 IF i = id THEN Stored(cols, r) ELSE rows[i]]

\* INSERT INTO warehouse.shipments (cols) VALUES (r)
\* ON CONFLICT (id) DO UPDATE SET col = EXCLUDED.col for col in cols, col != id
Upsert(rows, cols, r) ==
    LET id == r["id"][2]
    IN  IF id \in DOMAIN rows
          THEN [rows EXCEPT ![id] =
                   [c \in TableColumns |->
                       IF c \in cols \ {"id"} THEN r[c] ELSE @[c]]]
          ELSE [i \in DOMAIN rows \cup {id} |->
                   IF i = id THEN Stored(cols, r) ELSE rows[i]]

AfterRollbackCommits(s, w) == w

\* The committed state after conn.rollback() on a transaction whose
\* uncommitted view is w: the view is discarded.
AfterRollback(s, w) == s

\* The committed state after conn.commit().
AfterCommit(s, w) == w

\* Catalog objects of t that s does not have.
NewObjects(s, t) ==
    (t.dbs \ s.dbs) \cup (t.schemas \ s.schemas) \cup (t.tables \ s.tables)

StoreCreateDatabase(s) ==
    IF DbName \in s.dbs
      THEN [s |-> s, err |-> "DuplicateDatabase: database already exists"]
      ELSE [s |-> [s EXCEPT !.dbs = @ \cup {DbName}], err |-> NoExc]

CreateDatabaseUnchecked(s) == StoreCreateDatabase(s)

\* The statements of create_database: look the name up in pg_database and
\* CREATE DATABASE only when it is absent.
CreateDatabaseIfAbsent(s) ==
    IF DbName \in s.dbs THEN [s |-> s, err |-> NoExc]
    ELSE StoreCreateDatabase(s)

----------------------------------------------------------------------------
(* Inputs: the CSV files read_csv may find.                                 *)

BaseRow(i) ==
    [c \in RequiredColumns |->
        CASE c = "ID" -> Num(i)
          [] c = "Warehouse_block" -> Str("A")
          [] c = "Mode_of_Shipment" -> Str("Ship")
          [] c = "Customer_care_calls" -> Num(4)
          [] c = "Customer_rating" -> Num(3)
          [] c = "Cost_of_the_Product" -> Num(100)
          [] c = "Prior_purchases" -> Num(2)
          [] c = "Product_importance" -> Str("low")
          [] c = "Gender" -> Str("F")
          [] c = "Discount_offered" -> Num(10)
          [] c = "Weight_in_gms" -> Num(1000)
          [] c = "Reached.on.Time_Y.N" -> Num(1)]

Variants == {"base", "text_discount", "text_weight", "rating_6", "flag_2"}

Row(i, v) ==
    CASE v = "base" -> BaseRow(i)
      [] v = "text_discount" ->
             [BaseRow(i) EXCEPT !["Discount_offered"] = Str("abc")]
      [] v = "text_weight" ->
             [BaseRow(i) EXCEPT !["Weight_in_gms"] = Str("abc")]
      [] v = "rating_6" -> [BaseRow(i) EXCEPT !["Customer_rating"] = Num(6)]
      [] v = "flag_2" -> [BaseRow(i) EXCEPT !["Reached.on.Time_Y.N"] = Num(2)]

SeqsUpTo(S, n) == UNION {[1..m -> S] : m \in 0..n}

Rows == {Row(i, v) : i \in Ids, v \in Variants}
BaseRows == {BaseRow(i) : i \in Ids}

Restrict(r, cols) == [c \in cols |-> r[c]]
Extend(r, c, v) == [x \in DOMAIN r \cup {c} |-> IF x = c THEN v ELSE r[x]]

\* Files with the exact header, files lacking one required column, and files
\* with one column the table does not have.
CSVs ==
    {[columns |-> RequiredColumns, rows |-> b] : b \in SeqsUpTo(Rows, MaxRows)}
    \cup
    {[columns |-> RequiredColumns \ {c},
      rows |-> [i \in DOMAIN b |-> Restrict(b[i], RequiredColumns \ {c})]] :
        c \in RequiredColumns, b \in SeqsUpTo(BaseRows, MaxRows)}
    \cup
    {[columns |-> RequiredColumns \cup {"Notes"},
      rows |-> [i \in DOMAIN b |-> Extend(b[i], "Notes", Str("n"))]] :
        b \in SeqsUpTo(BaseRows, MaxRows)}

\* Rows with up to MaxBad cells that are empty or non-numeric text.
RichRows ==
    UNION {{[c \in RequiredColumns |-> IF c \in S THEN f[c] ELSE BaseRow(1)[c]] :
               f \in [S -> {NaN, Str("abc")}]} :
           S \in {T \in SUBSET RequiredColumns : Cardinality(T) <= MaxBad}}

RichCSVs ==
    {[columns |-> RequiredColumns, rows |-> <<r>>] : r \in RichRows}
    \cup
    {[columns |-> RequiredColumns, rows |-> <<BaseRow(2), r>>] : r \in RichRows}

----------------------------------------------------------------------------
(* main *)

DbFns == {"create_database", "create_schema", "create_table", "load_data"}
Provisioning == {"create_database", "create_schema", "create_table"}

NextStage(s) ==
    CASE s = "create_database" -> "create_schema"
      [] s = "create_schema" -> "create_table"
      [] s = "create_table" -> "read_csv"
      [] s = "read_csv" -> "transform_data"
      [] s = "transform_data" -> "load_data"
      [] s = "load_data" -> "done"

EntryPc(s) ==
    IF s \in DbFns THEN "connect"
    ELSE IF s \in {"done", "failed"} THEN "exit" ELSE "call"

AfterCallSwallows(s, e) == NextStage(s)

\* Where main() is after the call s ended with exception e (NoExc: returned).
AfterCall(s, e) == IF e = NoExc THEN NextStage(s) ELSE "failed"

FirstCause(e) == IF cause = NoExc THEN e ELSE cause

\* main's except clause: log, re-raise.
MainExcept(e) ==
    /\ stage' = "failed"
    /\ pc' = EntryPc("failed")
    /\ logged' = logged \cup {<<"main", e>>}
    /\ propagated' = e

Init ==
    /\ store = FreshStore
    /\ work = FreshStore
    /\ stage = "create_database"
    /\ pc = "connect"
    /\ conn = "unbound"
    /\ cur = "unbound"
    /\ openConns = 0
    /\ exc = NoExc
    /\ k = 0
    /\ df = NoDf
    /\ dft = NoDf
    /\ logged = {}
    /\ propagated = NoExc
    /\ cause = NoExc
    /\ succeeded = {}
    /\ store0 = FreshStore
    /\ snap = FreshStore
    /\ ddl = {}
    /\ rowWrites = 0
    /\ loaded = {}

\* A new invocation of the script.  The previous process has exited: its
\* sockets are closed and the server has discarded any open transaction.
StartRun ==
    /\ stage \in {"done", "failed"}
    /\ stage' = "create_database"
    /\ pc' = "connect"
    /\ work' = store
    /\ conn' = "unbound"
    /\ cur' = "unbound"
    /\ openConns' = 0
    /\ exc' = NoExc
    /\ k' = 0
    /\ df' = NoDf
    /\ dft' = NoDf
    /\ logged' = {}
    /\ propagated' = NoExc
    /\ cause' = NoExc
    /\ succeeded' = {}
    /\ store0' = store
    /\ snap' = IF stage = "failed" THEN snap ELSE store
    /\ ddl' = {}
    /\ rowWrites' = 0
    /\ UNCHANGED <<store, loaded>>

\* get_connection, called first by each of the four database functions.
GetConnection ==
    /\ stage \in DbFns /\ pc = "connect"
    /\ \E ok \in BOOLEAN :
        LET target == IF stage = "create_database" THEN "postgres" ELSE DbName
            e == "OperationalError: connection failed"
        IN  IF ok /\ target \in store.dbs
              THEN /\ conn' = "open"
                   /\ openConns' = openConns + 1
                   /\ work' = store
                   /\ pc' = "cursor"
                   /\ UNCHANGED <<exc, cause, logged>>
              ELSE /\ exc' = e
                   /\ cause' = FirstCause(e)
                   /\ logged' = logged \cup {<<"get_connection", e>>}
                   /\ pc' = "except"
                   /\ UNCHANGED <<conn, openConns, work>>
    /\ UNCHANGED <<store, stage, cur, k, df, dft, propagated, succeeded,
                   store0, snap, ddl, rowWrites, loaded>>

\* cur = conn.cursor()
Cursor ==
    /\ stage \in DbFns /\ pc = "cursor"
    /\ \E ok \in BOOLEAN :
        LET e == "InterfaceError: cursor failed"
        IN  IF ok
              THEN cur' = "open" /\ pc' = "exec" /\ UNCHANGED <<exc, cause>>
              ELSE /\ exc' = e
                   /\ cause' = FirstCause(e)
                   /\ pc' = "except"
                   /\ UNCHANGED cur
    /\ UNCHANGED <<store, work, stage, conn, openConns, k, df, dft, logged,
                   propagated, succeeded, store0, snap, ddl,
                   rowWrites, loaded>>

\* create_database: the catalog query and the CREATE DATABASE, in autocommit.
CreateDatabaseExec ==
    /\ stage = "create_database" /\ pc = "exec"
    /\ \E ok \in BOOLEAN :
        LET r == CreateDatabaseIfAbsent(store)
            e == IF ok THEN r.err ELSE "OperationalError: statement failed"
        IN  IF e = NoExc
              THEN /\ store' = r.s
                   /\ work' = r.s
                   /\ ddl' = ddl \cup NewObjects(store, r.s)
                   /\ pc' = "finally"
                   /\ UNCHANGED <<exc, cause>>
              ELSE /\ exc' = e
                   /\ cause' = FirstCause(e)
                   /\ pc' = "except"
                   /\ UNCHANGED <<store, work, ddl>>
    /\ UNCHANGED <<stage, conn, cur, openConns, k, df, dft, logged,
                   propagated, succeeded, store0, snap, rowWrites,
                   loaded>>

\* cur.execute of create_schema and of create_table.
CreateExec ==
    /\ stage \in {"create_schema", "create_table"} /\ pc = "exec"
    /\ \E ok \in BOOLEAN :
        LET e == "OperationalError: statement failed"
        IN  IF ok
              THEN /\ work' = IF stage = "create_schema"
                                THEN CreateSchemaIfNotExists(work)
                                ELSE CreateTableIfNotExists(work)
                   /\ pc' = "commit"
                   /\ UNCHANGED <<exc, cause>>
              ELSE /\ exc' = e
                   /\ cause' = FirstCause(e)
                   /\ pc' = "except"
                   /\ UNCHANGED work
    /\ UNCHANGED <<store, stage, conn, cur, openConns, k, df, dft, logged,
                   propagated, succeeded, store0, snap, ddl,
                   rowWrites, loaded>>

\* cur.executemany: one statement per record, in order.
ExecuteManyRow ==
    /\ stage = "load_data" /\ pc = "exec" /\ k < Len(dft.rows)
    /\ \E ok \in BOOLEAN :
        LET r == dft.rows[k + 1]
            e == IF ok THEN StatementError(work, dft.columns, r)
                 ELSE "OperationalError: statement failed"
        IN  IF e = NoExc
              THEN /\ work' = [work EXCEPT
                                 !.rows = Upsert(@, dft.columns, r)]
                   /\ k' = k + 1
                   /\ rowWrites' = rowWrites + 1
                   /\ UNCHANGED <<exc, cause, pc>>
              ELSE /\ exc' = e
                   /\ cause' = FirstCause(e)
                   /\ pc' = "except"
                   /\ UNCHANGED <<work, k, rowWrites>>
    /\ UNCHANGED <<store, stage, conn, cur, openConns, df, dft, logged,
                   propagated, succeeded, store0, snap, ddl, loaded>>

\* cur.executemany returns once every record is executed.
ExecuteManyDone ==
    /\ stage = "load_data" /\ pc = "exec" /\ k = Len(dft.rows)
    /\ pc' = "commit"
    /\ UNCHANGED <<store, work, stage, conn, cur, openConns, exc, k, df, dft,
                   logged, propagated, cause, succeeded, store0, snap,
                   ddl, rowWrites, loaded>>

\* conn.commit() of create_schema, create_table and load_data.
Commit ==
    /\ stage \in DbFns /\ pc = "commit"
    /\ \E ok \in BOOLEAN :
        LET e == "OperationalError: commit failed"
            s == AfterCommit(store, work)
        IN  IF ok
              THEN /\ store' = s
                   /\ work' = s
                   /\ ddl' = ddl \cup NewObjects(store, s)
                   /\ loaded' = IF stage = "load_data"
                                  THEN loaded \cup
                                       {dft.rows[i]["id"][2] : i \in RowIdx(dft)}
                                  ELSE loaded
                   /\ pc' = "finally"
                   /\ UNCHANGED <<exc, cause>>
              ELSE /\ exc' = e
                   /\ cause' = FirstCause(e)
                   /\ work' = store
                   /\ pc' = "except"
                   /\ UNCHANGED <<store, ddl, loaded>>
    /\ UNCHANGED <<stage, conn, cur, openConns, k, df, dft, logged,
                   propagated, succeeded, store0, snap, rowWrites>>

\* The except clause of create_database, create_schema, create_table:
\* log and re-raise.
ExceptProvision ==
    /\ stage \in Provisioning /\ pc = "except"
    /\ logged' = logged \cup {<<stage, exc>>}
    /\ pc' = "finally"
    /\ UNCHANGED <<store, work, stage, conn, cur, openConns, exc, k, df, dft,
                   propagated, cause, succeeded, store0, snap, ddl,
                   rowWrites, loaded>>

\* The except clause of load_data: conn.rollback(), log, re-raise.  With
\* conn unbound the rollback itself raises and nothing is logged.
ExceptLoad ==
    /\ stage = "load_data" /\ pc = "except"
    /\ pc' = "finally"
    /\ IF conn = "unbound"
         THEN /\ exc' = "UnboundLocalError: conn"
              /\ UNCHANGED <<store, work, logged>>
         ELSE \E ok \in BOOLEAN :
                IF ok
                  THEN /\ store' = AfterRollback(store, work)
                       /\ work' = store'
                       /\ logged' = logged \cup {<<stage, exc>>}
                       /\ UNCHANGED exc
                  ELSE /\ exc' = "OperationalError: rollback failed"
                       /\ UNCHANGED <<store, work, logged>>
    /\ UNCHANGED <<stage, conn, cur, openConns, k, df, dft, propagated,
                   cause, succeeded, store0, snap, ddl, rowWrites,
                   loaded>>

\* The finally clause: cur.close(), then conn.close().  With cur unbound
\* cur.close() raises and conn.close() is not reached.
Finally ==
    /\ stage \in DbFns /\ pc = "finally"
    /\ pc' = "return"
    /\ IF cur = "unbound"
         THEN /\ exc' = "UnboundLocalError: cur"
              /\ UNCHANGED <<cur, conn, openConns, work>>
         ELSE /\ cur' = "closed"
              /\ conn' = "closed"
              /\ openConns' = openConns - 1
              /\ work' = store
              /\ UNCHANGED exc
    /\ UNCHANGED <<store, stage, k, df, dft, logged, propagated, cause,
                   succeeded, store0, snap, ddl, rowWrites, loaded>>

\* The database function returns to main, or its exception reaches main's
\* except clause.
Return ==
    /\ stage \in DbFns /\ pc = "return"
    /\ LET next == AfterCall(stage, exc)
       IN  IF next = "failed"
             THEN /\ MainExcept(exc)
                  /\ UNCHANGED <<conn, cur, k, exc, succeeded>>
             ELSE /\ stage' = next
                  /\ pc' = EntryPc(next)
                  /\ succeeded' = succeeded \cup {stage}
                  /\ conn' = "unbound"
                  /\ cur' = "unbound"
                  /\ k' = 0
                  /\ exc' = NoExc
                  /\ UNCHANGED <<logged, propagated>>
    /\ UNCHANGED <<store, work, openConns, df, dft, cause, store0, snap,
                   ddl, rowWrites, loaded>>

\* df = pd.read_csv('shipments.csv')
ReadCsv ==
    /\ stage = "read_csv" /\ pc = "call"
    /\ \/ \E csv \in CSVs :
            /\ df' = csv
            /\ stage' = NextStage(stage)
            /\ pc' = EntryPc(NextStage(stage))
            /\ succeeded' = succeeded \cup {stage}
            /\ UNCHANGED <<exc, cause, logged, propagated>>
       \/ LET e == "FileNotFoundError: shipments.csv"
          IN  /\ exc' = e
              /\ cause' = FirstCause(e)
              /\ MainExcept(e)
              /\ UNCHANGED <<df, succeeded>>
    /\ UNCHANGED <<store, work, conn, cur, openConns, k, dft, store0, snap,
                   ddl, rowWrites, loaded>>

\* df_transformed = transform_data(df)
TransformData ==
    /\ stage = "transform_data" /\ pc = "call"
    /\ LET e == validate_data(df)
       IN  IF e = NoExc
             THEN /\ dft' = Transform(df)
                  /\ stage' = NextStage(stage)
                  /\ pc' = EntryPc(NextStage(stage))
                  /\ succeeded' = succeeded \cup {stage}
                  /\ UNCHANGED <<exc, cause, logged, propagated>>
             ELSE /\ exc' = e
                  /\ cause' = FirstCause(e)
                  /\ stage' = "failed"
                  /\ pc' = EntryPc("failed")
                  /\ logged' = logged \cup {<<"transform_data", e>>,
                                            <<"main", e>>}
                  /\ propagated' = e
                  /\ UNCHANGED <<dft, succeeded>>
    /\ UNCHANGED <<store, work, conn, cur, openConns, k, df, store0, snap,
                   ddl, rowWrites, loaded>>

Next ==
    \/ StartRun
    \/ GetConnection
    \/ Cursor
    \/ CreateDatabaseExec
    \/ CreateExec
    \/ ExecuteManyRow
    \/ ExecuteManyDone
    \/ Commit
    \/ ExceptProvision
    \/ ExceptLoad
    \/ Finally
    \/ Return
    \/ ReadCsv
    \/ TransformData

Spec == Init /\ [][Next]_vars

\* transform_data on its own: main has provisioned a fresh target and has
\* just read one of the files of RichCSVs.
InitTransform ==
    /\ store = [FreshStore EXCEPT !.dbs = FullCatalog.dbs,
                                  !.schemas = FullCatalog.schemas,
                                  !.tables = FullCatalog.tables]
    /\ work = store
    /\ stage = "transform_data"
    /\ pc = "call"
    /\ conn = "unbound"
    /\ cur = "unbound"
    /\ openConns = 0
    /\ exc = NoExc
    /\ k = 0
    /\ df \in RichCSVs
    /\ dft = NoDf
    /\ logged = {}
    /\ propagated = NoExc
    /\ cause = NoExc
    /\ succeeded = Provisioning \cup {"read_csv"}
    /\ store0 = FreshStore
    /\ snap = FreshStore
    /\ ddl = {DbName, "warehouse", "shipments"}
    /\ rowWrites = 0
    /\ loaded = {}

SpecTransform == InitTransform /\ [][TransformData]_vars

----------------------------------------------------------------------------
(* Vocabulary of the properties, stated without the model's own helpers.    *)

StageOrder == <<"create_database", "create_schema", "create_table",
                "read_csv", "transform_data", "load_data", "done">>

StagePos(s) == CHOOSE i \in 1..Len(StageOrder) : StageOrder[i] = s

Earlier(s) == {StageOrder[i] : i \in 1..(StagePos(s) - 1)}

SourceColumns12 ==
    {"ID", "Warehouse_block", "Mode_of_Shipment", "Customer_care_calls",
     "Customer_rating", "Cost_of_the_Product", "Prior_purchases",
     "Product_importance", "Gender", "Discount_offered", "Weight_in_gms",
     "Reached.on.Time_Y.N"}

MissingColumn(d) == d # NoDf /\ ~(SourceColumns12 \subseteq d.columns)

HasInvalidRow(d) ==
    /\ d # NoDf
    /\ \E i \in 1..Len(d.rows) :
          \/ /\ "Customer_rating" \in d.columns
             /\ d.rows[i]["Customer_rating"][1] = "num"
             /\ d.rows[i]["Customer_rating"][2] \notin 1..5
          \/ /\ "Reached.on.Time_Y.N" \in d.columns
             /\ d.rows[i]["Reached.on.Time_Y.N"][1] = "num"
             /\ d.rows[i]["Reached.on.Time_Y.N"][2] \notin {0, 1}

BatchIds(d) == {d.rows[i]["id"][2] : i \in 1..Len(d.rows)}

LastWith(d, id) ==
    d.rows[CHOOSE i \in 1..Len(d.rows) :
              /\ d.rows[i]["id"][2] = id
              /\ \A j \in (i + 1)..Len(d.rows) : d.rows[j]["id"][2] # id]

\* after is before with every row of batch d applied last-wins.
IsLoadResult(before, d, after) ==
    /\ DOMAIN after = DOMAIN before \cup BatchIds(d)
    /\ \A id \in DOMAIN after :
          IF id \in BatchIds(d) THEN after[id] = LastWith(d, id)
          ELSE after[id] = before[id]

----------------------------------------------------------------------------
(* C1: the calls of main run in the fixed order create_database,            *)
(* create_schema, create_table, read_csv, transform_data, load_data, done;  *)
(* a call starts only after every earlier one returned normally; a call     *)
(* that raises moves the run straight to failed, where nothing further      *)
(* runs in that invocation and the store no longer changes.                 *)

C1_Step ==
    /\ stage' \notin {"failed"} => succeeded' = Earlier(stage')
    /\ (stage \notin {"done", "failed"} /\ stage' # stage) =>
          \/ /\ stage' = StageOrder[StagePos(stage) + 1]
             /\ exc = NoExc /\ exc' = NoExc
          \/ /\ stage' = "failed"
             /\ exc' # NoExc /\ propagated' = exc'
             /\ succeeded' = succeeded
    /\ (stage \in {"done", "failed"} /\ stage' = stage) => UNCHANGED vars
    /\ (stage \in {"done", "failed"} /\ stage' # stage) =>
          \* only a new invocation of the script follows
          /\ stage' = "create_database" /\ succeeded' = {}
          /\ store' = store /\ store0' = store

C1_StageOrder == [][C1_Step]_vars

C1_Witness ==
    /\ stage = "failed"
    /\ succeeded = {"create_database", "create_schema"}
    /\ cause # NoExc

(* C2: a load that fails on a row or on the statement, also after earlier   *)
(* rows of the batch were executed, commits nothing: the table holds what   *)
(* it held when the load started.                                           *)

C2_FailedLoadRollsBack ==
    (("transform_data" \in succeeded /\ "load_data" \notin succeeded)
        /\ (exc # NoExc \/ stage = "failed"))
    => store.rows = store0.rows

C2_Witness ==
    /\ stage = "failed"
    /\ "transform_data" \in succeeded
    /\ Len(dft.rows) >= 2
    /\ k >= 1
    /\ dft.rows[1]["id"][2] \notin DOMAIN store.rows

(* C3: the table holds one row per identifier ever loaded, keyed by it;     *)
(* after a load every identifier of the batch carries the values of the     *)
(* last row of the batch with that identifier and every other row is        *)
(* unchanged.                                                               *)

C3_UpsertLastWins ==
    /\ DOMAIN store.rows = loaded
    /\ Cardinality(DOMAIN store.rows) = Cardinality(loaded)
    /\ \A id \in DOMAIN store.rows : store.rows[id]["id"] = Num(id)
    /\ stage = "done" => IsLoadResult(store0.rows, dft, store.rows)

C3_Witness ==
    /\ stage = "done"
    /\ \E a \in BatchIds(dft) \cap DOMAIN store0.rows :
          store.rows[a] # store0.rows[a]
    /\ \E b \in DOMAIN store0.rows : b \notin BatchIds(dft)
    /\ \E i, j \in 1..Len(dft.rows) :
          i < j /\ dft.rows[i]["id"] = dft.rows[j]["id"] /\ dft.rows[i] # dft.rows[j]

(* C4, as stated: a file missing a required column is rejected before any   *)
(* write to the store in that invocation, and none follows.                 *)

C4_NoStoreWrite ==
    (MissingColumn(df) /\ stage = "failed") =>
        (store = store0 /\ ddl = {} /\ rowWrites = 0)

(* C4, amended: a file missing a required column is rejected before any     *)
(* row is written to the table, and none follows; the invocation may        *)
(* already have created the database, schema and table.                     *)

C4_NoRowWrite ==
    MissingColumn(df) =>
        /\ stage \in {"transform_data", "failed"}
        /\ dft = NoDf
        /\ rowWrites = 0
        /\ store.rows = store0.rows

C4_Witness ==
    /\ stage = "failed"
    /\ MissingColumn(df)
    /\ Len(df.rows) > 0
    /\ ddl # {}

(* C5: a batch with a rating outside 1..5 or a flag outside {0, 1} in any   *)
(* row is rejected whole: load_data is never reached and no row of the      *)
(* batch is written.                                                        *)

C5_BatchRejected ==
    HasInvalidRow(df) =>
        /\ stage \in {"transform_data", "failed"}
        /\ dft = NoDf
        /\ rowWrites = 0
        /\ store.rows = store0.rows

C5_Witness ==
    /\ stage = "failed"
    /\ HasInvalidRow(df)
    /\ Len(df.rows) >= 2
    /\ ~HasInvalidRow([df EXCEPT !.rows = <<df.rows[1]>>])

(* C6: the exception that reaches the process boundary is the one the       *)
(* failing stage raised.                                                    *)

C6_SameFailurePropagates == stage = "failed" => propagated = cause

(* C7: a successful invocation after any number of failed ones leaves the   *)
(* store as one successful invocation from the state before the failures    *)
(* would: the full catalog and the earlier rows with the batch applied; a   *)
(* failed invocation leaves no rows behind.                                 *)

C7_RerunSafe ==
    /\ stage = "failed" => store.rows = snap.rows
    /\ stage = "done" =>
          /\ Catalog(store) = FullCatalog
          /\ IsLoadResult(snap.rows, dft, store.rows)

C7_Witness ==
    /\ stage = "done"
    /\ snap # store0
    /\ Len(dft.rows) > 0

(* C8: provisioning an already provisioned target succeeds without an       *)
(* already-exists error and changes nothing; after provisioning there is    *)
(* exactly the one database, schema and table.                              *)

C8_ProvisionIdempotent ==
    /\ cause \notin {"DuplicateDatabase: database already exists"}
    /\ "create_table" \in succeeded => Catalog(store) = FullCatalog
    /\ Catalog(store0) = FullCatalog =>
          /\ ddl = {}
          /\ Catalog(store) = FullCatalog
          /\ stage \in {"create_database", "create_schema", "create_table",
                        "read_csv", "transform_data"} => store = store0

C8_Witness ==
    /\ Catalog(store0) = FullCatalog
    /\ DOMAIN store0.rows # {}
    /\ stage = "read_csv"

(* C9: in the transformed batch a cell of one of the seven numeric columns  *)
(* that did not parse as a number is 0 in customer_care_calls,              *)
(* prior_purchases and discount_offered and null in the others; a null in   *)
(* any column but those three stays null.                                   *)

SevenNumeric ==
    {"Customer_care_calls", "Customer_rating", "Cost_of_the_Product",
     "Prior_purchases", "Discount_offered", "Weight_in_gms",
     "Reached.on.Time_Y.N"}

ThreeZeroFill == {"Customer_care_calls", "Prior_purchases", "Discount_offered"}

TargetName(c) ==
    CASE c = "ID" -> "id"
      [] c = "Reached.on.Time_Y.N" -> "reached_on_time"
      [] c = "Warehouse_block" -> "warehouse_block"
      [] c = "Mode_of_Shipment" -> "mode_of_shipment"
      [] c = "Customer_care_calls" -> "customer_care_calls"
      [] c = "Customer_rating" -> "customer_rating"
      [] c = "Cost_of_the_Product" -> "cost_of_the_product"
      [] c = "Prior_purchases" -> "prior_purchases"
      [] c = "Product_importance" -> "product_importance"
      [] c = "Gender" -> "gender"
      [] c = "Discount_offered" -> "discount_offered"
      [] c = "Weight_in_gms" -> "weight_in_gms"

C9_CoerceThenFill ==
    dft # NoDf =>
        /\ Len(dft.rows) = Len(df.rows)
        /\ \A i \in 1..Len(df.rows) : \A c \in SourceColumns12 :
              LET v == df.rows[i][c]
                  t == dft.rows[i][TargetName(c)]
              IN  /\ (c \in SevenNumeric /\ v[1] # "num") =>
                        t = IF c \in ThreeZeroFill THEN <<"num", 0>>
                            ELSE <<"nan", 0>>
                  /\ (c \notin ThreeZeroFill /\ v = <<"nan", 0>>) =>
                        t = <<"nan", 0>>
                  /\ v[1] = "num" => t = v

C9_Witness ==
    /\ stage = "load_data"
    /\ \E i \in 1..Len(df.rows) :
          /\ df.rows[i]["Discount_offered"] = <<"str", "abc">>
          /\ dft.rows[i]["discount_offered"] = <<"num", 0>>
          /\ df.rows[i]["Weight_in_gms"] = <<"str", "abc">>
          /\ dft.rows[i]["weight_in_gms"] = <<"nan", 0>>

(* C10: whenever one of the four database functions returns or raises, no   *)
(* connection or cursor it opened is still open, and at most one            *)
(* connection is open at any time.                                          *)

C10_ConnectionsReleased ==
    /\ openConns <= 1
    /\ (pc = "return" \/ stage \in {"read_csv", "transform_data", "done",
                                   "failed"})
          => (openConns = 0 /\ cur # "open" /\ conn # "open")

====
